---- MODULE Spec2Model ----
(***************************************************************************)
(* Model of applications/tari_base_node/src/parser.rs: the base node's     *)
(* console command parser.  A line of text is split on ' ', its first      *)
(* token is resolved to a BaseNodeCommand, and the command's handler       *)
(* either acts at once (printing, flipping the mining flag, setting the    *)
(* shutdown flag) or spawns a detached unit of work on the executor.       *)
(*                                                                         *)
(* A Rust string is modelled as the sequence of its characters, each a     *)
(* one-character TLA+ string, so that splitting, prefix matching, case     *)
(* conversion and number parsing are computed, not assumed.                *)
(***************************************************************************)
EXTENDS Integers, Sequences, FiniteSets, TLC

(***************************************************************************)
(* Bounds of the model.                                                    *)
(***************************************************************************)
\* lines a session hands to handle_command
MaxLines == 2
\* lines of a session that flips the mining flag
MaxToggleLines == 3
\* lines of a session that lists headers
MaxHeaderLines == 1
\* highest chain height the node service reports in the full console model
MaxTip == 0
\* highest chain height the node service reports in the list-headers model
MaxHeight == 10

\* lines handled in a session that also asks for completions
MaxFrameLines == 1

(***************************************************************************)
(* Characters.                                                             *)
(***************************************************************************)
UpperSeq == <<"A","B","C","D","E","F","G","H","I","J","K","L","M",
              "N","O","P","Q","R","S","T","U","V","W","X","Y","Z">>

LowerSeq == <<"a","b","c","d","e","f","g","h","i","j","k","l","m",
              "n","o","p","q","r","s","t","u","v","w","x","y","z">>

DigitSeq == <<"0","1","2","3","4","5","6","7","8","9">>

IsUpper(ch) == \E i \in 1..Len(UpperSeq) : UpperSeq[i] = ch

IsLower(ch) == \E i \in 1..Len(LowerSeq) : LowerSeq[i] = ch

IsDigit(ch) == \E i \in 1..Len(DigitSeq) : DigitSeq[i] = ch

ToLowerChar(ch) ==
    IF IsUpper(ch)
    THEN LowerSeq[CHOOSE i \in 1..Len(UpperSeq) : UpperSeq[i] = ch]
    ELSE ch

DigitValue(ch) == (CHOOSE i \in 1..Len(DigitSeq) : DigitSeq[i] = ch) - 1

\* a match anywhere in the string: str::contains
contains(s, prefix) ==
    \E k \in 0..(Len(s) - Len(prefix)) :
        \A i \in 1..Len(prefix) : s[k + i] = prefix[i]

\* str::starts_with
starts_with(s, prefix) ==
    /\ Len(prefix) <= Len(s)
    /\ \A i \in 1..Len(prefix) : s[i] = prefix[i]

\* str::split(' '): every ' ' separates two tokens, so n spaces give n + 1
\* tokens and the empty string gives the one token ""
RECURSIVE SplitFrom(_, _, _)
SplitFrom(s, i, cur) ==
    IF i > Len(s) THEN <<cur>>
    ELSE IF s[i] = " " THEN <<cur>> \o SplitFrom(s, i + 1, <<>>)
    ELSE SplitFrom(s, i + 1, Append(cur, s[i]))

split(s) == SplitFrom(s, 1, <<>>)

\* the inverse used to write the input lines: tokens joined by single spaces
RECURSIVE JoinSp(_)
JoinSp(toks) ==
    IF Len(toks) = 0 THEN <<>>
    ELSE IF Len(toks) = 1 THEN toks[1]
    ELSE toks[1] \o <<" ">> \o JoinSp(Tail(toks))

(***************************************************************************)
(* BaseNodeCommand and its derived Display / EnumIter / EnumString.        *)
(***************************************************************************)
\* the variants, in declaration order (EnumIter)
BaseNodeCommand ==
    <<"Help", "GetBalance", "SendTari", "GetChainMetadata", "ListPeers",
      "ListConnections", "ListHeaders", "Whoami", "ToggleMining", "Quit", "Exit">>

Commands == {BaseNodeCommand[i] : i \in 1..Len(BaseNodeCommand)}

\* the identifier of each variant as written in the enum
Ident(c) ==
    CASE c = "Help" -> <<"H","e","l","p">>
      [] c = "GetBalance" -> <<"G","e","t","B","a","l","a","n","c","e">>
      [] c = "SendTari" -> <<"S","e","n","d","T","a","r","i">>
      [] c = "GetChainMetadata" ->
            <<"G","e","t","C","h","a","i","n","M","e","t","a","d","a","t","a">>
      [] c = "ListPeers" -> <<"L","i","s","t","P","e","e","r","s">>
      [] c = "ListConnections" ->
            <<"L","i","s","t","C","o","n","n","e","c","t","i","o","n","s">>
      [] c = "ListHeaders" -> <<"L","i","s","t","H","e","a","d","e","r","s">>
      [] c = "Whoami" -> <<"W","h","o","a","m","i">>
      [] c = "ToggleMining" -> <<"T","o","g","g","l","e","M","i","n","i","n","g">>
      [] c = "Quit" -> <<"Q","u","i","t">>
      [] c = "Exit" -> <<"E","x","i","t">>

\* a word of the identifier starts at an upper-case letter that follows a
\* lower-case one, or that follows an upper-case one and precedes a lower-case one
WordStart(s, i) ==
    /\ i > 1
    /\ IsUpper(s[i])
    /\ \/ IsLower(s[i - 1]) \/ IsDigit(s[i - 1])
       \/ IsUpper(s[i - 1]) /\ i < Len(s) /\ IsLower(s[i + 1])

RECURSIVE KebabFrom(_, _)
KebabFrom(s, i) ==
    IF i > Len(s) THEN <<>>
    ELSE (IF WordStart(s, i) THEN <<"-">> ELSE <<>>)
         \o <<ToLowerChar(s[i])>> \o KebabFrom(s, i + 1)

\* a conversion that keeps only the first word of the identifier
RECURSIVE FirstWordFrom(_, _)
FirstWordFrom(s, i) ==
    IF i > Len(s) \/ WordStart(s, i) THEN <<>>
    ELSE <<ToLowerChar(s[i])>> \o FirstWordFrom(s, i + 1)

KebabFirstWord(s) == FirstWordFrom(s, 1)

\* #[strum(serialize_all = "kebab_case")]
KebabCase(s) == KebabFrom(s, 1)

\* the serialization strum derives for each variant, shared by Display and
\* EnumString
Serializations == [c \in Commands |-> KebabCase(Ident(c))]

\* Display: x.to_string()
to_string(c) == Serializations[c]

Err == [ok |-> FALSE, val |-> "none"]

Ok(v) == [ok |-> TRUE, val |-> v]

\* EnumString: BaseNodeCommand::from_str, the first variant whose
\* serialization is the string
from_str(s) ==
    IF \E i \in 1..Len(BaseNodeCommand) : to_string(BaseNodeCommand[i]) = s
    THEN Ok(BaseNodeCommand[CHOOSE i \in 1..Len(BaseNodeCommand) :
                /\ to_string(BaseNodeCommand[i]) = s
                /\ \A j \in 1..(i - 1) : to_string(BaseNodeCommand[j]) # s])
    ELSE Err

\* Parser::commands, filled in Parser::new
commands == [i \in 1..Len(BaseNodeCommand) |-> to_string(BaseNodeCommand[i])]

(***************************************************************************)
(* Argument parsing.                                                       *)
(***************************************************************************)
U64MaxDigits ==
    <<"1","8","4","4","6","7","4","4","0","7","3","7","0","9","5","5","1","6","1","5">>

RECURSIVE StripZeros(_)
StripZeros(ds) ==
    IF Len(ds) > 1 /\ ds[1] = "0" THEN StripZeros(Tail(ds)) ELSE ds

\* ds <= U64MaxDigits for two digit strings of the same length
RECURSIVE DigitsLeq(_, _, _)
DigitsLeq(ds, max, i) ==
    IF i > Len(ds) THEN TRUE
    ELSE IF DigitValue(ds[i]) < DigitValue(max[i]) THEN TRUE
    ELSE IF DigitValue(ds[i]) > DigitValue(max[i]) THEN FALSE
    ELSE DigitsLeq(ds, max, i + 1)

FitsU64(ds) ==
    LET n == StripZeros(ds) IN
    \/ Len(n) < Len(U64MaxDigits)
    \/ Len(n) = Len(U64MaxDigits) /\ DigitsLeq(n, U64MaxDigits, 1)

RECURSIVE DigitsValue(_, _)
DigitsValue(ds, acc) ==
    IF Len(ds) = 0 THEN acc
    ELSE DigitsValue(Tail(ds), acc * 10 + DigitValue(ds[1]))

\* str::parse::<u64>() and, on the 64-bit targets of the node, ::<usize>():
\* an optional '+', then one or more decimal digits, no sign '-', no
\* overflow.  (The inputs of the model that pass are far below 2^31.)
parse_u64(tok) ==
    LET ds == IF Len(tok) > 0 /\ tok[1] = "+" THEN Tail(tok) ELSE tok IN
    IF Len(ds) = 0 THEN Err
    ELSE IF \E i \in 1..Len(ds) : ~IsDigit(ds[i]) THEN Err
    ELSE IF ~FitsU64(ds) THEN Err
    ELSE Ok(DigitsValue(StripZeros(ds), 0))

\* Texts that stand for well-formed keys.  A real hex key is 64 hex digits and a
\* real emoji id a string of emoji; the model keeps two short texts of each
\* encoding, "E1".."E4" standing for single emoji characters.
HexA == <<"a","1","b","2">>

HexB == <<"0","0","f","f">>

EmojiA == <<"E1","E2">>

EmojiB == <<"E3","E4">>

\* CommsPublicKey::from_hex
from_hex(tok) ==
    IF tok = HexA THEN Ok("pkA") ELSE IF tok = HexB THEN Ok("pkB") ELSE Err

\* EmojiId::str_to_pubkey
str_to_pubkey(tok) ==
    IF tok = EmojiA THEN Ok("pkA") ELSE IF tok = EmojiB THEN Ok("pkB") ELSE Err

\* CommsPublicKey::from_hex(..).or_else(|_| EmojiId::str_to_pubkey(..))
dest_pubkey(tok) ==
    IF from_hex(tok).ok THEN from_hex(tok) ELSE str_to_pubkey(tok)

\* Iterator::take(n) on a sequence
take(seq, n) == SubSeq(seq, 1, IF n < Len(seq) THEN n ELSE Len(seq))

\* args.next(): the first remaining token, if any
next(args) == IF Len(args) > 0 THEN Ok(args[1]) ELSE Err

unwrap_or(res, default) == IF res.ok THEN res.val ELSE default

(***************************************************************************)
(* The handlers.  A handler's effect is what it prints and logs, the       *)
(* detached units it spawns on the executor, the values it stores into the *)
(* shutdown flag, and whether it goes on to flip the mining flag.          *)
(***************************************************************************)
Effect(handler) ==
    [handler |-> handler, out |-> <<>>, log |-> <<>>, spawn |-> <<>>,
     shutdown_store |-> <<>>, toggle |-> FALSE, panic |-> FALSE]

\* the call panics: the console thread unwinds out of handle_command
Panic(handler) == [Effect(handler) EXCEPT !.panic = TRUE]

\* v[k] of a Vec, k counted from 0: out of bounds it panics
index(v, k) == IF k < Len(v) THEN Ok(v[k + 1]) ELSE Err

\* a unit of work handed to executor.spawn; pc names the backend call it
\* awaits, metadata is what get_metadata answered the list-headers unit,
\* answered tells of each backend call it has resumed from whether it was Ok
Task(kind, at) ==
    [kind |-> kind, pc |-> at, max_headers |-> 0, metadata |-> Err, max_height |-> 0,
     heights |-> <<>>, amount |-> 0, dest |-> "none", fee_per_gram |-> 0,
     out |-> <<>>, log |-> <<>>, answered |-> <<>>]

RECURSIVE JoinWith(_, _)
JoinWith(strs, sep) ==
    IF Len(strs) = 0 THEN <<>>
    ELSE IF Len(strs) = 1 THEN strs[1]
    ELSE strs[1] \o sep \o JoinWith(Tail(strs), sep)

SendTariUsage ==
    << <<"Sends an amount of Tari to a address call this command via:">>,
       <<"send_tari [amount of tari to send] [public key to send to]">> >>

\* a help that prints nothing for a topic that is no command
print_help_known_only(args) ==
    LET topic == from_str(unwrap_or(next(args), <<>>)) IN
    IF topic.ok /\ topic.val = "SendTari"
    THEN [Effect("Help") EXCEPT !.out = SendTariUsage]
    ELSE Effect("Help")

print_help(args) ==
    LET topic == from_str(unwrap_or(next(args), <<>>))
        help_for == unwrap_or(topic, "Help")
        text ==
          CASE help_for = "Help" ->
                 << <<"Available commands are: ">>,
                    <<"{}", JoinWith(commands, <<",", " ">>)>> >>
            [] help_for = "GetBalance" -> << <<"Gets your balance">> >>
            [] help_for = "SendTari" -> SendTariUsage
            [] help_for = "GetChainMetadata" ->
                 << <<"Gets your base node chain meta data">> >>
            [] help_for = "ListPeers" ->
                 << <<"Lists the peers that this node knows about">> >>
            [] help_for = "ListConnections" ->
                 << <<"Lists the peer connections currently held by this node">> >>
            [] help_for = "ListHeaders" ->
                 << <<"List the last headers up to a maximum of 10 of the current chain">> >>
            [] help_for = "ToggleMining" ->
                 << <<"Enable or disable the miner on this node, calling this command will toggle the state">> >>
            [] help_for = "Whoami" ->
                 << <<"Display identity information about this node, including: public key, node ID and the public address">> >>
            [] help_for \in {"Exit", "Quit"} -> << <<"Exits the base node">> >>
    IN [Effect("Help") EXCEPT !.out = text]

\* a balance handler that blocks on the wallet before it returns
process_get_balance_block_on ==
    [Effect("GetBalance") EXCEPT
        !.spawn = <<[Task("GetBalance", "done") EXCEPT
                        !.out = << <<"Balances:\n{}", "data">> >>]>>]

process_get_balance ==
    [Effect("GetBalance") EXCEPT !.spawn = <<Task("GetBalance", "get_balance")>>]

process_get_chain_meta ==
    [Effect("GetChainMetadata") EXCEPT
        !.spawn = <<Task("GetChainMetadata", "get_metadata")>>]

process_list_peers ==
    [Effect("ListPeers") EXCEPT !.spawn = <<Task("ListPeers", "flood_peers")>>]

process_list_connections ==
    [Effect("ListConnections") EXCEPT
        !.spawn = <<Task("ListConnections", "get_active_connections")>>]

\* a handler that switches mining on instead of flipping it
toggled_on(loaded) == TRUE

\* process_toggle_mining, first half: the value it computes from the load
toggled(loaded) == ~loaded

\* a toggle that also raises the shutdown flag
process_toggle_mining_and_stop ==
    [Effect("ToggleMining") EXCEPT !.toggle = TRUE, !.shutdown_store = <<TRUE>>]

process_toggle_mining == [Effect("ToggleMining") EXCEPT !.toggle = TRUE]

\* a count that falls back to the default whenever the argument is not positive
max_headers_positive(args) ==
    LET n == unwrap_or(parse_u64(unwrap_or(next(args), <<"1">>)), 1) IN
    IF n = 0 THEN 1 ELSE n

\* args.next().unwrap_or("1").parse().unwrap_or(1)
max_headers_of(args) == unwrap_or(parse_u64(unwrap_or(next(args), <<"1">>)), 1)

process_list_headers(args) ==
    [Effect("ListHeaders") EXCEPT
        !.spawn = <<[Task("ListHeaders", "get_metadata") EXCEPT
                        !.max_headers = max_headers_of(args)]>>]

process_whoami == [Effect("Whoami") EXCEPT !.out = << <<"{}", "node_identity">> >>]

FormatHint ==
    << <<"Command entered incorrectly, please use the following format: ">>,
       <<"send_tari [amount of tari to send] [public key to send to]">> >>

AmountHint == << <<"please enter a valid amount of tari">> >>

DestHint == << <<"please enter a valid destination pub_key">> >>

\* 25 * uT
FeePerGram == 25

\* an amount that falls back to zero when it does not parse
amount_or_zero(command_arg) == Ok(unwrap_or(parse_u64(command_arg[2]), 0))

\* command_arg[1].parse::<u64>()
amount_of(command_arg) == parse_u64(command_arg[2])

\* a send handler that only rejects an empty argument list
process_send_tari_unless_empty(args) ==
    LET command_arg == take(args, 3) IN
    IF Len(command_arg) = 0
    THEN [Effect("SendTari") EXCEPT !.out = FormatHint]
    ELSE IF ~index(command_arg, 1).ok THEN Panic("SendTari")
    ELSE LET amount == amount_of(command_arg) IN
         IF ~amount.ok THEN [Effect("SendTari") EXCEPT !.out = AmountHint]
         ELSE IF ~index(command_arg, 2).ok THEN Panic("SendTari")
         ELSE LET dest == dest_pubkey(index(command_arg, 2).val) IN
              IF ~dest.ok THEN [Effect("SendTari") EXCEPT !.out = DestHint]
              ELSE [Effect("SendTari") EXCEPT
                      !.spawn = <<[Task("SendTari", "send_transaction") EXCEPT
                                      !.amount = amount.val,
                                      !.dest = dest.val,
                                      !.fee_per_gram = FeePerGram]>>]

\* command_arg[1] and command_arg[2] are indexed after the length check,
\* amount.unwrap() after the is_err check
process_send_tari(args) ==
    LET command_arg == take(args, 3) IN
    IF Len(command_arg) # 3
    THEN [Effect("SendTari") EXCEPT !.out = FormatHint]
    ELSE IF ~index(command_arg, 1).ok THEN Panic("SendTari")
    ELSE LET amount == amount_of(command_arg) IN
         IF ~amount.ok THEN [Effect("SendTari") EXCEPT !.out = AmountHint]
         ELSE IF ~index(command_arg, 2).ok THEN Panic("SendTari")
         ELSE LET dest == dest_pubkey(index(command_arg, 2).val) IN
              IF ~dest.ok THEN [Effect("SendTari") EXCEPT !.out = DestHint]
              ELSE [Effect("SendTari") EXCEPT
                      !.spawn = <<[Task("SendTari", "send_transaction") EXCEPT
                                      !.amount = amount.val,
                                      !.dest = dest.val,
                                      !.fee_per_gram = FeePerGram]>>]

\* the Exit | Quit arm without its store
process_exit_no_store ==
    [Effect("Exit") EXCEPT !.out = << <<"Shutting down...">> >>]

\* an Exit | Quit arm that stores false
process_exit_store_false ==
    [Effect("Exit") EXCEPT
        !.out = << <<"Shutting down...">> >>,
        !.log = << <<"info", "Termination signal received from user. Shutting node down.">> >>,
        !.shutdown_store = <<FALSE>>]

\* the Exit | Quit arm of process_command
process_exit ==
    [Effect("Exit") EXCEPT
        !.out = << <<"Shutting down...">> >>,
        !.log = << <<"info", "Termination signal received from user. Shutting node down.">> >>,
        !.shutdown_store = <<TRUE>>]

process_command(command, args) ==
    CASE command = "Help" -> print_help(args)
      [] command = "GetBalance" -> process_get_balance
      [] command = "SendTari" -> process_send_tari(args)
      [] command = "GetChainMetadata" -> process_get_chain_meta
      [] command = "ListPeers" -> process_list_peers
      [] command = "ListConnections" -> process_list_connections
      [] command = "ListHeaders" -> process_list_headers(args)
      [] command = "ToggleMining" -> process_toggle_mining
      [] command = "Whoami" -> process_whoami
      [] command \in {"Exit", "Quit"} ->
            [process_exit EXCEPT !.handler = command]

NotValid(command_str) ==
    << <<"{} is not a valid command, please enter a valid command", command_str>>,
       <<"Enter help or press tab for available commands">> >>

\* a dispatcher that shows the help when the first token is no command
handle_command_lenient(command_str) ==
    LET args == split(command_str)
        command == from_str(unwrap_or(next(args), <<"h","e","l","p">>))
    IN process_command(unwrap_or(command, "Help"),
                       IF Len(args) > 0 THEN Tail(args) ELSE <<>>)

handle_command(command_str) ==
    LET args == split(command_str)
        command == from_str(unwrap_or(next(args), <<"h","e","l","p">>))
    IN IF ~command.ok
       THEN [Effect("none") EXCEPT !.out = NotValid(command_str)]
       ELSE process_command(command.val, IF Len(args) > 0 THEN Tail(args) ELSE <<>>)

\* Completer::complete: the candidates, in the order of Parser::commands
complete(line) == SelectSeq(commands, LAMBDA cmd : starts_with(cmd, line))

(***************************************************************************)
(* The detached units.                                                     *)
(***************************************************************************)
\* (0..max_height + 1).rev()
Descending(max_height) == [k \in 1..(max_height + 1) |-> max_height + 1 - k]

\* a range that leaves out the tip: (0..max_height).rev()
heights_below_tip(max_height, max_headers) ==
    take([k \in 1..max_height |-> max_height - k], max_headers)

\* (0..max_height + 1).rev().take(max_headers).collect()
heights_of(max_height, max_headers) == take(Descending(max_height), max_headers)

\* fold(String::new(), |acc, p| format!("{}\n{}", acc, p))
RECURSIVE Fold(_, _)
Fold(items, sep) ==
    IF Len(items) = 0 THEN <<>>
    ELSE <<sep, items[1]>> \o Fold(Tail(items), sep)

Warn(msg) == <<"warn", msg>>

Error(msg) == <<"error", msg>>

\* what a backend may answer
Answers == {Err, Ok("data")}

Listings == {Err, Ok(<<>>), Ok(<<"peer1", "peer2">>)}

\* get_metadata as the list-headers unit sees it: an error, metadata without
\* a height, or metadata with a height among hs
Metadata(hs) == {Err, Ok([height_of_longest_chain |-> Err])}
                \cup {Ok([height_of_longest_chain |-> Ok(h)]) : h \in hs}

\* a balance unit that logs a failure without telling the operator
get_balance_done_log_only(t, r) ==
    IF ~r.ok
    THEN [t EXCEPT !.pc = "done",
                   !.log = <<Warn("Error communicating with wallet: {}")>>]
    ELSE [t EXCEPT !.pc = "done", !.out = << <<"Balances:\n{}", r.val>> >>]

get_balance_done(t, r) ==
    IF ~r.ok
    THEN [t EXCEPT !.pc = "done",
                   !.out = << <<"Something went wrong">> >>,
                   !.log = <<Warn("Error communicating with wallet: {}")>>]
    ELSE [t EXCEPT !.pc = "done", !.out = << <<"Balances:\n{}", r.val>> >>]

get_chain_meta_done(t, r) ==
    IF ~r.ok
    THEN [t EXCEPT !.pc = "done",
                   !.out = << <<"Failed to retrieve chain metadata: {:?}", "err">> >>,
                   !.log = <<Warn("Error communicating with base node: {}")>>]
    ELSE [t EXCEPT !.pc = "done",
                   !.out = << <<"Current meta data is is: {}", r.val>> >>]

list_peers_done(t, r) ==
    IF ~r.ok
    THEN [t EXCEPT !.pc = "done", !.log = <<Error("Could not read peers: {}")>>]
    ELSE [t EXCEPT !.pc = "done",
                   !.out = << <<"{}", Fold(r.val, "\n")>>,
                              <<"{} peer(s) known by this node", Len(r.val)>> >>]

list_connections_done(t, r) ==
    IF ~r.ok
    THEN [t EXCEPT !.pc = "done", !.log = <<Error("Could not list connections: {}")>>]
    ELSE IF Len(r.val) = 0
    THEN [t EXCEPT !.pc = "done", !.out = << <<"No active peer connections.">> >>]
    ELSE [t EXCEPT !.pc = "done",
                   !.out = << <<"{}", Fold(r.val, "\n")>>,
                              <<"{} active connection(s)", Len(r.val)>> >>]

\* a list-headers unit that gives up when get_metadata fails
list_headers_height_or_return(t, r) ==
    IF ~r.ok
    THEN [t EXCEPT !.pc = "done",
                   !.metadata = r,
                   !.out = << <<"Failed to retrieve chain height: {:?}", "err">> >>,
                   !.log = <<Warn("Error communicating with base node: {}")>>]
    ELSE LET max_height == unwrap_or(r.val.height_of_longest_chain, 0)
         IN [t EXCEPT !.pc = "get_header",
                      !.metadata = r,
                      !.max_height = max_height,
                      !.heights = heights_of(max_height, t.max_headers)]

\* the list-headers unit after get_metadata answered: it goes on to call
\* get_header(heights)
list_headers_height(t, r) ==
    LET max_height ==
          IF ~r.ok THEN 0 ELSE unwrap_or(r.val.height_of_longest_chain, 0)
    IN [t EXCEPT !.pc = "get_header",
                 !.metadata = r,
                 !.max_height = max_height,
                 !.heights = heights_of(max_height, t.max_headers),
                 !.out = IF ~r.ok
                         THEN << <<"Failed to retrieve chain height: {:?}", "err">> >>
                         ELSE <<>>,
                 !.log = IF ~r.ok
                         THEN <<Warn("Error communicating with base node: {}")>>
                         ELSE <<>>]

list_headers_done(t, r) ==
    IF ~r.ok
    THEN [t EXCEPT !.pc = "done",
                   !.out = @ \o << <<"Failed to retrieve headers: {:?}", "err">> >>,
                   !.log = @ \o <<Warn("Error communicating with base node: {}")>>]
    ELSE [t EXCEPT !.pc = "done",
                   !.out = @ \o << <<"{}", Fold([k \in 1..Len(t.heights) |->
                                                    <<"header", t.heights[k]>>], "\n\n")>> >>]

send_tari_done(t, r) ==
    IF ~r.ok
    THEN [t EXCEPT !.pc = "done",
                   !.out = << <<"Something went wrong sending funds">>, <<"{:?}", "err">> >>,
                   !.log = <<Warn("Error communicating with wallet: {}")>>]
    ELSE [t EXCEPT !.pc = "done",
                   !.out = << <<"Send {} Tari to {} ", t.amount, t.dest>> >>]

(***************************************************************************)
(* The lines typed at the console.                                         *)
(***************************************************************************)
Num100 == <<"1","0","0">>

TooBig ==
    <<"1","8","4","4","6","7","4","4","0","7","3","7","0","9","5","5","1","6","1","6">>

Abc == <<"a","b","c">>

NotHex == <<"z","z">>

Word(c) == to_string(c)

\* every command on its own
CommandLines == {Word(c) : c \in Commands}

\* lines whose first token is no command
JunkLines ==
    { <<>>,
      <<"n","o","t","-","a","-","c","o","m","m","a","n","d">>,
      Ident("Help"),
      <<" ">> \o Word("Help"),
      JoinSp(<< <<"s","e","n","d","_","t","a","r","i">>, Num100, HexA >>) }

HelpLines ==
    { JoinSp(<<Word("Help"), Word("SendTari")>>),
      JoinSp(<<Word("Help"), Abc>>),
      JoinSp(<<Word("Quit"), Abc>>) }

HeaderLines ==
    { Word("ListHeaders"),
      JoinSp(<<Word("ListHeaders"), <<"3">> >>),
      JoinSp(<<Word("ListHeaders"), <<"3">>, <<"2">> >>),
      JoinSp(<<Word("ListHeaders"), <<"+","2">> >>),
      JoinSp(<<Word("ListHeaders"), <<"0">> >>),
      JoinSp(<<Word("ListHeaders"), <<"-","1">> >>),
      JoinSp(<<Word("ListHeaders"), Abc>>),
      JoinSp(<<Word("ListHeaders"), <<>> >>),
      JoinSp(<<Word("ListHeaders"), TooBig>>) }

SendLines ==
    { Word("SendTari"),
      JoinSp(<<Word("SendTari"), Num100>>),
      JoinSp(<<Word("SendTari"), Num100, HexA>>),
      JoinSp(<<Word("SendTari"), Num100, EmojiA>>),
      JoinSp(<<Word("SendTari"), Abc, HexA>>),
      JoinSp(<<Word("SendTari"), Num100, NotHex>>),
      JoinSp(<<Word("SendTari"), Num100, HexA, <<>> >>),
      JoinSp(<<Word("SendTari"), <<>>, <<"7">>, HexA>>),
      JoinSp(<<Word("SendTari"), Abc, Num100, HexA>>),
      JoinSp(<<Word("SendTari"), Abc, Num100, EmojiB>>),
      JoinSp(<<Word("SendTari"), Abc, <<"0">>, HexB>>),
      JoinSp(<<Word("SendTari"), Abc, Num100, HexA, Abc>>),
      JoinSp(<<Word("SendTari"), Abc, Abc, HexA>>),
      JoinSp(<<Word("SendTari"), Abc, <<"-","5">>, HexA>>),
      JoinSp(<<Word("SendTari"), Abc, <<>>, HexA>>),
      JoinSp(<<Word("SendTari"), Abc, TooBig, HexA>>),
      JoinSp(<<Word("SendTari"), Abc, Num100, NotHex>>),
      JoinSp(<<Word("SendTari"), Abc, Num100, <<>> >>) }

\* the lines of a console session that uses every command
ConsoleLines ==
    CommandLines \cup JunkLines \cup HelpLines
    \cup { JoinSp(<<Word("SendTari"), Abc, Num100, HexA>>),
           JoinSp(<<Word("SendTari"), Num100, HexA>>),
           JoinSp(<<Word("ListHeaders"), <<"3">> >>) }

\* the lines of a session that flips the mining flag between other commands
MiningLines ==
    { Word("ToggleMining"),
      JoinSp(<<Word("ToggleMining"), Abc>>),
      Word("GetBalance"),
      Word("Quit"),
      Word("Help"),
      <<"t","o","g","g","l","e">> }

\* the lines of a session that asks for help on every topic
HelpTopicLines ==
    { Word("Help"), Word("GetBalance") }
    \cup { JoinSp(<<Word("Help"), Word(c)>>) : c \in Commands }
    \cup { JoinSp(<<Word("Help"), Abc>>),
           JoinSp(<<Word("Help"), <<>> >>),
           JoinSp(<<Word("Help"), Ident("Quit")>>),
           JoinSp(<<Word("Help"), <<>>, Word("Quit")>>),
           JoinSp(<<Word("Help"), Word("SendTari"), Abc>>),
           JoinSp(<<Word("Help"), Abc, Word("SendTari")>>) }

AllLines ==
    ConsoleLines \cup MiningLines \cup SendLines \cup HeaderLines \cup HelpTopicLines

\* handle_command on every line of the model, computed once
Handled == [command_str \in AllLines |-> handle_command(command_str)]

\* the partial lines the completer is asked about
CompleteLines ==
    { <<>>, <<"l">>, <<"l","i","s","t","-">>, <<"g","e","t">>, <<"e">>,
      <<"h","e","l","p">>, <<"h","e","l","p"," ">>, <<"H">>, <<"i","t">>,
      <<"x">>, <<"-">>, Word("ListConnections"), Word("Quit") \o <<"s">> }

(***************************************************************************)
(* The state.                                                              *)
(***************************************************************************)
VARIABLES
    pc,             \* where the console thread is: "Idle", inside process_toggle_mining,
                    \* or "panicked" once a call has unwound
    enable_miner,   \* Parser::enable_miner, the shared mining flag
    shutdown_flag,  \* Parser::shutdown_flag, the shared shutdown flag
    new_state,      \* the local of process_toggle_mining
    tasks,          \* the units spawned on Parser::executor, in spawn order
    line,           \* the line of the last handle_command call
    printed,        \* what that call wrote to stdout
    logged,         \* what that call wrote to the log
    invoked,        \* the handler that call reached, "none" if it reached none
    spawned,        \* the units that call spawned
    nlines,         \* handle_command calls so far
    init_miner,     \* the mining flag when the parser was built
    toggles,        \* completed process_toggle_mining calls
    complete_line,  \* the line of the last Completer::complete call
    completions     \* what that call returned

vars == <<pc, enable_miner, shutdown_flag, new_state, tasks, line, printed, logged,
          invoked, spawned, nlines, init_miner, toggles, complete_line, completions>>

flags == <<enable_miner, shutdown_flag>>

console == <<pc, new_state, line, printed, logged, invoked, spawned, nlines, toggles>>

completer == <<complete_line, completions>>

\* Parser::new: the flags are handed in by the node, in either state
Init ==
    /\ pc = "Idle"
    /\ enable_miner \in BOOLEAN
    /\ shutdown_flag \in BOOLEAN
    /\ new_state = FALSE
    /\ tasks = <<>>
    /\ line = <<>>
    /\ printed = <<>>
    /\ logged = <<>>
    /\ invoked = "none"
    /\ spawned = <<>>
    /\ nlines = 0
    /\ init_miner = enable_miner
    /\ toggles = 0
    /\ complete_line = <<>>
    /\ completions = <<>>

\* Parser::handle_command(command_str), up to its return or, for
\* toggle-mining, up to the load of the mining flag
HandleCommand(command_str, max) ==
    /\ pc = "Idle"
    /\ nlines < max
    /\ LET e == Handled[command_str] IN
       /\ line' = command_str
       /\ nlines' = nlines + 1
       /\ printed' = e.out
       /\ logged' = e.log
       /\ invoked' = e.handler
       /\ spawned' = e.spawn
       /\ tasks' = tasks \o e.spawn
       /\ shutdown_flag' = IF Len(e.shutdown_store) > 0
                           THEN e.shutdown_store[Len(e.shutdown_store)]
                           ELSE shutdown_flag
       /\ IF e.toggle
          THEN /\ new_state' = toggled(enable_miner)
               /\ pc' = "toggle_store"
          ELSE /\ new_state' = new_state
               /\ pc' = IF e.panic THEN "panicked" ELSE "Idle"
    /\ UNCHANGED <<enable_miner, init_miner, toggles, completer>>

\* process_toggle_mining, second half: the store and the debug log
ToggleStore ==
    /\ pc = "toggle_store"
    /\ enable_miner' = new_state
    /\ logged' = << <<"debug", "Mining state is now switched to {}", new_state>> >>
    /\ toggles' = toggles + 1
    /\ pc' = "Idle"
    /\ UNCHANGED <<shutdown_flag, new_state, tasks, line, printed, invoked, spawned,
                   nlines, init_miner, completer>>

\* another holder of the mining flag (the miner, the node) stores a value
MinerStore ==
    /\ \E v \in BOOLEAN : enable_miner' = v
    /\ UNCHANGED <<shutdown_flag, console, tasks, init_miner, completer>>

\* Completer::complete(line, pos, ctx)
Complete(partial) ==
    /\ pc = "Idle"
    /\ complete_line' = partial
    /\ completions' = complete(partial)
    /\ UNCHANGED <<flags, console, tasks, init_miner>>

\* a backend that answers the units in the order they were spawned
ReplyInSpawnOrder(i, kind, at, r, next_task) ==
    /\ tasks[i].kind = kind
    /\ tasks[i].pc = at
    /\ \A k \in 1..(i - 1) : tasks[k].pc = "done"
    /\ tasks' = [tasks EXCEPT ![i] = [next_task EXCEPT !.answered = Append(@, r.ok)]]
    /\ UNCHANGED <<flags, console, init_miner, completer>>

\* a runtime that drops the answer once the shutdown flag is set
ReplyUnlessShutdown(i, kind, at, r, next_task) ==
    /\ ~shutdown_flag
    /\ tasks[i].kind = kind
    /\ tasks[i].pc = at
    /\ tasks' = [tasks EXCEPT ![i] = [next_task EXCEPT !.answered = Append(@, r.ok)]]
    /\ UNCHANGED <<flags, console, init_miner, completer>>

\* a backend answers with r the call that unit i awaits
Reply(i, kind, at, r, next_task) ==
    /\ tasks[i].kind = kind
    /\ tasks[i].pc = at
    /\ tasks' = [tasks EXCEPT ![i] = [next_task EXCEPT !.answered = Append(@, r.ok)]]
    /\ UNCHANGED <<flags, console, init_miner, completer>>

GetBalanceReply ==
    \E i \in 1..Len(tasks), r \in Answers :
        Reply(i, "GetBalance", "get_balance", r, get_balance_done(tasks[i], r))

GetMetadataReply ==
    \E i \in 1..Len(tasks), r \in Answers :
        Reply(i, "GetChainMetadata", "get_metadata", r, get_chain_meta_done(tasks[i], r))

FloodPeersReply ==
    \E i \in 1..Len(tasks), r \in Listings :
        Reply(i, "ListPeers", "flood_peers", r, list_peers_done(tasks[i], r))

GetActiveConnectionsReply ==
    \E i \in 1..Len(tasks), r \in Listings :
        Reply(i, "ListConnections", "get_active_connections", r,
              list_connections_done(tasks[i], r))

GetHeightReply(hs) ==
    \E i \in 1..Len(tasks), r \in Metadata(hs) :
        Reply(i, "ListHeaders", "get_metadata", r, list_headers_height(tasks[i], r))

GetHeaderReply ==
    \E i \in 1..Len(tasks), r \in Answers :
        Reply(i, "ListHeaders", "get_header", r, list_headers_done(tasks[i], r))

SendTransactionReply ==
    \E i \in 1..Len(tasks), r \in Answers :
        Reply(i, "SendTari", "send_transaction", r, send_tari_done(tasks[i], r))

(***************************************************************************)
(* The console: every command, lines that are no command, every unit.      *)
(***************************************************************************)
ReadLine == \E command_str \in ConsoleLines : HandleCommand(command_str, MaxLines)

Next ==
    \/ ReadLine
    \/ ToggleStore
    \/ GetBalanceReply
    \/ GetMetadataReply
    \/ FloodPeersReply
    \/ GetActiveConnectionsReply
    \/ GetHeightReply(0..MaxTip)
    \/ GetHeaderReply
    \/ SendTransactionReply

Spec == Init /\ [][Next]_vars

(***************************************************************************)
(* The console flipping the mining flag while other commands run.          *)
(***************************************************************************)
ReadMiningLine ==
    \E command_str \in MiningLines : HandleCommand(command_str, MaxToggleLines)

NextMining ==
    \/ ReadMiningLine
    \/ ToggleStore
    \/ GetBalanceReply

SpecMining == Init /\ [][NextMining]_vars

(***************************************************************************)
(* The console sending funds.                                              *)
(***************************************************************************)
ReadSendLine == \E command_str \in SendLines : HandleCommand(command_str, MaxLines)

NextSend ==
    \/ ReadSendLine
    \/ SendTransactionReply

SpecSend == Init /\ [][NextSend]_vars

(***************************************************************************)
(* The console listing headers of chains up to MaxHeight.                  *)
(***************************************************************************)
ReadHeaderLine ==
    \E command_str \in HeaderLines : HandleCommand(command_str, MaxHeaderLines)

NextHeaders ==
    \/ ReadHeaderLine
    \/ GetHeightReply(0..MaxHeight)
    \/ GetHeaderReply

SpecHeaders == Init /\ [][NextHeaders]_vars

(***************************************************************************)
(* The line editor asking for completions between commands.                *)
(***************************************************************************)
TabComplete == \E partial \in CompleteLines : Complete(partial)

ReadAnyLine ==
    \E command_str \in {Word("ToggleMining"), Word("Quit"), Word("GetBalance")} :
        HandleCommand(command_str, MaxLines)

NextComplete ==
    \/ TabComplete
    \/ ReadAnyLine
    \/ ToggleStore
    \/ GetBalanceReply

SpecComplete == Init /\ [][NextComplete]_vars

(***************************************************************************)
(* The console asking for help while a balance query runs.                 *)
(***************************************************************************)
ReadHelpLine ==
    \E command_str \in HelpTopicLines : HandleCommand(command_str, MaxLines)

NextHelp ==
    \/ ReadHelpLine
    \/ GetBalanceReply

SpecHelp == Init /\ [][NextHelp]_vars

(***************************************************************************)
(* The console starting queries whose units run side by side.              *)
(***************************************************************************)
UnitLines ==
    { Word("GetChainMetadata"), Word("ListPeers"),
      JoinSp(<<Word("ListHeaders"), <<"3">> >>) }

ReadUnitLine == \E command_str \in UnitLines : HandleCommand(command_str, MaxLines)

NextUnits ==
    \/ ReadUnitLine
    \/ GetMetadataReply
    \/ FloodPeersReply
    \/ GetHeightReply(0..MaxTip)
    \/ GetHeaderReply

SpecUnits == Init /\ [][NextUnits]_vars

(***************************************************************************)
(* The console asking to shut down while units are in flight, on a runtime *)
(* that keeps polling its tasks and with backends that answer every call.  *)
(***************************************************************************)
LiveLines ==
    { Word("GetBalance"), JoinSp(<<Word("ListHeaders"), <<"3">> >>),
      Word("Quit"), Word("Exit") }

ReadLiveLine == \E command_str \in LiveLines : HandleCommand(command_str, MaxLines)

NextLive ==
    \/ ReadLiveLine
    \/ GetBalanceReply
    \/ GetHeightReply(0..MaxTip)
    \/ GetHeaderReply

SpecLive ==
    /\ Init
    /\ [][NextLive]_vars
    /\ WF_vars(GetBalanceReply)
    /\ WF_vars(GetHeightReply(0..MaxTip))
    /\ WF_vars(GetHeaderReply)

(***************************************************************************)
(* The console fed lines of every shape, before and after quit.            *)
(***************************************************************************)
SessionLines ==
    JunkLines \cup SendLines \cup HeaderLines
    \cup { Word("Quit"), Word("Exit"), Word("ToggleMining"), Word("Help"),
           JoinSp(<<Word("ToggleMining"), Abc>>), JoinSp(<<Word("Quit"), Abc>>) }

ReadSessionLine ==
    \E command_str \in SessionLines : HandleCommand(command_str, MaxLines)

NextSession ==
    \/ ReadSessionLine
    \/ ToggleStore
    \/ SendTransactionReply

SpecSession == Init /\ [][NextSession]_vars

(***************************************************************************)
(* The console flipping the mining flag while another holder writes it.    *)
(***************************************************************************)
NextShared ==
    \/ ReadMiningLine
    \/ ToggleStore
    \/ GetBalanceReply
    \/ MinerStore

SpecShared == Init /\ [][NextShared]_vars

(***************************************************************************)
(* The console with every command, every unit and the line editor.         *)
(***************************************************************************)
ReadFrameLine ==
    \E command_str \in ConsoleLines : HandleCommand(command_str, MaxFrameLines)

NextFrame ==
    \/ ReadFrameLine
    \/ ToggleStore
    \/ TabComplete
    \/ GetBalanceReply
    \/ GetMetadataReply
    \/ FloodPeersReply
    \/ GetActiveConnectionsReply
    \/ GetHeightReply(0..MaxTip)
    \/ GetHeaderReply
    \/ SendTransactionReply

SpecFrame == Init /\ [][NextFrame]_vars

(***************************************************************************)
(* What the documentation says, written out.                               *)
(***************************************************************************)
\* the canonical token of each command
CanonicalToken ==
    [c \in Commands |->
        CASE c = "Help" -> <<"h","e","l","p">>
          [] c = "GetBalance" -> <<"g","e","t","-","b","a","l","a","n","c","e">>
          [] c = "SendTari" -> <<"s","e","n","d","-","t","a","r","i">>
          [] c = "GetChainMetadata" ->
                <<"g","e","t","-","c","h","a","i","n","-","m","e","t","a","d","a","t","a">>
          [] c = "ListPeers" -> <<"l","i","s","t","-","p","e","e","r","s">>
          [] c = "ListConnections" ->
                <<"l","i","s","t","-","c","o","n","n","e","c","t","i","o","n","s">>
          [] c = "ListHeaders" -> <<"l","i","s","t","-","h","e","a","d","e","r","s">>
          [] c = "Whoami" -> <<"w","h","o","a","m","i">>
          [] c = "ToggleMining" ->
                <<"t","o","g","g","l","e","-","m","i","n","i","n","g">>
          [] c = "Quit" -> <<"q","u","i","t">>
          [] c = "Exit" -> <<"e","x","i","t">>]

\* the tokens of a line, and its first
TokensOf(l) == split(l)

FirstToken(l) == TokensOf(l)[1]

IsCommandToken(tok) == \E c \in Commands : CanonicalToken[c] = tok

\* the step is a handle_command call
Called == nlines' = nlines + 1

(***************************************************************************)
(* C1: rendering a command gives its canonical token, parsing that token   *)
(* gives the command back, the 11 tokens are pairwise distinct, and a line *)
(* that is the token of command c is dispatched to the handler of c.       *)
(***************************************************************************)
VocabularyRoundTrips ==
    /\ \A c \in Commands :
          /\ to_string(c) = CanonicalToken[c]
          /\ from_str(CanonicalToken[c]) = Ok(c)
          /\ from_str(to_string(c)) = Ok(c)
    /\ \A c, d \in Commands : c # d => to_string(c) # to_string(d)

C1_RoundTrip ==
    /\ VocabularyRoundTrips
    /\ nlines > 0 =>
          LET first == FirstToken(line) IN
          \A c \in Commands : first = CanonicalToken[c] => invoked = c

C1_Witness ==
    /\ line = CanonicalToken["GetChainMetadata"]
    /\ invoked = "GetChainMetadata"

(***************************************************************************)
(* C2: handling the empty line runs the Help handler, which prints the     *)
(* listing of all commands, and prints no unrecognized-command diagnostic. *)
(***************************************************************************)
C2_EmptyLineIsHelp ==
    (nlines > 0 /\ line = <<>>) =>
        /\ invoked = "Help"
        /\ Len(printed) = 2
        /\ printed[1] = <<"Available commands are: ">>
        /\ printed[2][1] = "{}"

(***************************************************************************)
(* C3: a line whose first token is no canonical token prints exactly the   *)
(* two advisory lines, reaches no handler, spawns no unit, leaves both     *)
(* flags as they were and leaves the console idle.                         *)
(***************************************************************************)
C3_Unrecognized ==
    [][(Called /\ ~IsCommandToken(FirstToken(line'))) =>
          /\ printed' =
                << <<"{} is not a valid command, please enter a valid command", line'>>,
                   <<"Enter help or press tab for available commands">> >>
          /\ invoked' = "none"
          /\ spawned' = <<>>
          /\ tasks' = tasks
          /\ enable_miner' = enable_miner
          /\ shutdown_flag' = shutdown_flag
          /\ toggles' = toggles
          /\ pc' = "Idle"]_vars

C3_Witness ==
    /\ line = <<"n","o","t","-","a","-","c","o","m","m","a","n","d">>
    /\ nlines = 2
    /\ invoked = "none"
    /\ Len(printed) = 2
    /\ Len(tasks) = 1

(***************************************************************************)
(* C4: complete(line) returns exactly the canonical tokens that start with *)
(* the line, each once, in declaration order; the empty line gives all 11; *)
(* the call spawns nothing and changes no flag.                            *)
(***************************************************************************)
\* line is a prefix of tok, compared character by character
PrefixOf(l, tok) == Len(l) <= Len(tok) /\ SubSeq(tok, 1, Len(l)) = l

\* the place of a token in the declaration order
DeclIndex(tok) ==
    CHOOSE i \in 1..Len(BaseNodeCommand) : CanonicalToken[BaseNodeCommand[i]] = tok

C4_Complete ==
    [][(complete_line' # complete_line \/ completions' # completions) =>
          /\ \A k \in 1..Len(completions') :
                /\ IsCommandToken(completions'[k])
                /\ PrefixOf(complete_line', completions'[k])
          /\ \A c \in Commands :
                PrefixOf(complete_line', CanonicalToken[c]) =>
                    Cardinality({k \in 1..Len(completions') :
                                    completions'[k] = CanonicalToken[c]}) = 1
          /\ \A j, k \in 1..Len(completions') :
                j < k => DeclIndex(completions'[j]) < DeclIndex(completions'[k])
          /\ complete_line' = <<>> => Len(completions') = 11
          /\ tasks' = tasks
          /\ enable_miner' = enable_miner
          /\ shutdown_flag' = shutdown_flag]_vars

C4_Witness ==
    /\ complete_line = <<"l","i","s","t","-">>
    /\ completions = << CanonicalToken["ListPeers"], CanonicalToken["ListConnections"],
                        CanonicalToken["ListHeaders"] >>
    /\ Len(tasks) = 1

(***************************************************************************)
(* C5: with the console as the only writer of the mining flag, a toggle    *)
(* from v leaves the flag at ~v, and after k toggles the flag has its      *)
(* initial value exactly when k is even, whatever ran in between.          *)
(***************************************************************************)
C5_Toggle ==
    /\ [](pc = "Idle" => (enable_miner = init_miner <=> toggles % 2 = 0))
    /\ [][toggles' # toggles =>
            /\ toggles' = toggles + 1
            /\ enable_miner' = ~enable_miner]_vars
    /\ [][(Called /\ FirstToken(line') = CanonicalToken["ToggleMining"]) =>
            pc' = "toggle_store"]_vars
    /\ [][enable_miner' # enable_miner => toggles' = toggles + 1]_vars

C5_Witness ==
    /\ toggles = 2
    /\ pc = "Idle"
    /\ nlines = 3
    /\ enable_miner = init_miner
    /\ Len(tasks) = 1
    /\ tasks[1].pc = "done"

(***************************************************************************)
(* C6: quit and exit print "Shutting down..." and leave the shutdown flag  *)
(* true whatever it was, spawn nothing and leave the mining flag alone.    *)
(***************************************************************************)
C6_Shutdown ==
    [][(Called /\ FirstToken(line') \in {CanonicalToken["Quit"], CanonicalToken["Exit"]}) =>
          /\ printed' = << <<"Shutting down...">> >>
          /\ shutdown_flag' = TRUE
          /\ spawned' = <<>>
          /\ tasks' = tasks
          /\ enable_miner' = enable_miner
          /\ pc' = "Idle"]_vars

C6_Witness ==
    /\ nlines = 2
    /\ line = CanonicalToken["Exit"]
    /\ invoked = "Exit"
    /\ shutdown_flag
    /\ printed = << <<"Shutting down...">> >>

(***************************************************************************)
(* Amounts and destinations as the documentation describes them.           *)
(***************************************************************************)
\* the argument texts of the model that are unsigned 64-bit integers, with
\* their values
AmountTexts == { <<Num100, 100>>, << <<"0">>, 0 >>, << <<"7">>, 7 >> }

IsAmountText(tok) == \E a \in AmountTexts : a[1] = tok

AmountValue(tok) == (CHOOSE a \in AmountTexts : a[1] = tok)[2]

\* the argument texts of the model that are public keys, hex or emoji, with
\* the keys they encode
KeyTexts == { <<HexA, "pkA">>, <<HexB, "pkB">>, <<EmojiA, "pkA">>, <<EmojiB, "pkB">> }

IsKeyText(tok) == \E a \in KeyTexts : a[1] = tok

KeyValue(tok) == (CHOOSE a \in KeyTexts : a[1] = tok)[2]

IsSendLine(l) == FirstToken(l) = CanonicalToken["SendTari"]

\* a send-tari line the handler must turn down: too short, or the token read
\* as the amount is no u64, or the token read as the destination is no key.
\* On a line of three tokens these are the second and third token; on a
\* longer line they are the tokens the handler reads, the third and fourth.
Malformed(l) ==
    LET t == TokensOf(l) IN
    \/ Len(t) < 3
    \/ Len(t) = 3 /\ (~IsAmountText(t[2]) \/ ~IsKeyText(t[3]))
    \/ Len(t) > 3 /\ (~IsAmountText(t[3]) \/ ~IsKeyText(t[4]))

WellFormedSend(l) ==
    LET t == TokensOf(l) IN
    /\ Len(t) = 3
    /\ t[1] = CanonicalToken["SendTari"]
    /\ IsAmountText(t[2])
    /\ IsKeyText(t[3])

C8_SendIffThreeTokens ==
    nlines > 0 =>
        /\ (\E k \in 1..Len(spawned) : spawned[k].kind = "SendTari")
              <=> WellFormedSend(line)
        /\ WellFormedSend(line) =>
              /\ Len(spawned) = 1
              /\ spawned[1].amount = AmountValue(TokensOf(line)[2])
              /\ spawned[1].dest = KeyValue(TokensOf(line)[3])
              /\ spawned[1].fee_per_gram = 25

(***************************************************************************)
(* C9: when get_metadata answered the list-headers unit with height H and  *)
(* the count is n, the heights handed to get_header are the first n of     *)
(* H, H-1, ..., 0, in that order: [H] for no argument and H >= 1,          *)
(* [10, 9, 8] for "3" and H = 10, [0] for H = 0.                           *)
(***************************************************************************)
Retrieved(t) ==
    /\ t.kind = "ListHeaders"
    /\ t.pc \in {"get_header", "done"}
    /\ t.metadata.ok
    /\ t.metadata.val.height_of_longest_chain.ok

TipOf(t) == t.metadata.val.height_of_longest_chain.val

Smaller(a, b) == IF a < b THEN a ELSE b

C9_Heights ==
    /\ \A i \in 1..Len(tasks) :
          Retrieved(tasks[i]) =>
              LET t == tasks[i]
                  H == TipOf(t)
                  n == t.max_headers
              IN /\ Len(t.heights) = Smaller(n, H + 1)
                 /\ \A k \in 1..Len(t.heights) : t.heights[k] = H - (k - 1)
                 /\ (H = 0 /\ n >= 1) => t.heights = <<0>>
    /\ (Len(tasks) = nlines /\ nlines > 0 /\ Retrieved(tasks[nlines])) =>
          LET t == tasks[nlines]
              H == TipOf(t)
          IN /\ (line = CanonicalToken["ListHeaders"] /\ H >= 1) => t.heights = <<H>>
             /\ (line = JoinSp(<<CanonicalToken["ListHeaders"], <<"3">> >>) /\ H = 10) =>
                   t.heights = <<10, 9, 8>>

C9_Witness ==
    /\ nlines = 1
    /\ line = JoinSp(<<CanonicalToken["ListHeaders"], <<"3">> >>)
    /\ Len(tasks) = 1
    /\ Retrieved(tasks[1])
    /\ TipOf(tasks[1]) = 10
    /\ tasks[1].heights = <<10, 9, 8>>

(***************************************************************************)
(* C10: the header count is the value of the first argument when that is   *)
(* an unsigned integer, zero included, and 1 when it is absent or is no    *)
(* unsigned integer; a count of zero asks get_header for no height, every  *)
(* other count for at least one.                                           *)
(***************************************************************************)
\* the argument texts of the model that are unsigned integers, with their values
CountTexts == { << <<"3">>, 3 >>, << <<"+","2">>, 2 >>, << <<"0">>, 0 >> }

IsCountText(tok) == \E a \in CountTexts : a[1] = tok

CountValue(tok) == (CHOOSE a \in CountTexts : a[1] = tok)[2]

IsHeaderLine(l) == FirstToken(l) = CanonicalToken["ListHeaders"]

HasCountArgument(l) == Len(TokensOf(l)) >= 2 /\ IsCountText(TokensOf(l)[2])

C10_Count ==
    /\ (nlines > 0 /\ IsHeaderLine(line)) =>
          /\ Len(spawned) = 1
          /\ spawned[1].kind = "ListHeaders"
          /\ spawned[1].max_headers =
                IF HasCountArgument(line) THEN CountValue(TokensOf(line)[2]) ELSE 1
    /\ \A i \in 1..Len(tasks) :
          (tasks[i].kind = "ListHeaders" /\ tasks[i].pc \in {"get_header", "done"}) =>
              /\ tasks[i].max_headers >= 1 => Len(tasks[i].heights) >= 1
              /\ tasks[i].max_headers = 0 => tasks[i].heights = <<>>

C10_Witness ==
    /\ line = JoinSp(<<CanonicalToken["ListHeaders"], <<"0">> >>)
    /\ Len(tasks) = 1
    /\ tasks[1].max_headers = 0
    /\ tasks[1].pc = "get_header"
    /\ tasks[1].heights = <<>>

\* C10 as the documentation has it: the count is always positive, the
\* argument's value when that is a positive integer and 1 otherwise, so
\* get_header is always asked for at least one height
C10_CountPositive ==
    /\ (nlines > 0 /\ IsHeaderLine(line)) =>
          /\ Len(spawned) = 1
          /\ spawned[1].max_headers >= 1
          /\ spawned[1].max_headers =
                IF HasCountArgument(line) /\ CountValue(TokensOf(line)[2]) > 0
                THEN CountValue(TokensOf(line)[2]) ELSE 1
    /\ \A i \in 1..Len(tasks) :
          (tasks[i].kind = "ListHeaders" /\ tasks[i].pc \in {"get_header", "done"}) =>
              Len(tasks[i].heights) >= 1

(***************************************************************************)
(* C11: the Help handler never fails and never submits work.  With no      *)
(* topic, the topic "help" or a topic that is no canonical token it prints *)
(* the generic help, the vocabulary joined by ", " in declaration order;   *)
(* with a canonical topic it prints that command's usage text, and         *)
(* "help send-tari" prints exactly the two SendTari usage lines.           *)
(***************************************************************************)
DeclarationOrder ==
    <<"Help", "GetBalance", "SendTari", "GetChainMetadata", "ListPeers",
      "ListConnections", "ListHeaders", "Whoami", "ToggleMining", "Quit", "Exit">>

RECURSIVE TokensFrom(_)
TokensFrom(k) ==
    IF k = Len(DeclarationOrder) THEN CanonicalToken[DeclarationOrder[k]]
    ELSE CanonicalToken[DeclarationOrder[k]] \o <<",", " ">> \o TokensFrom(k + 1)

GenericHelp == << <<"Available commands are: ">>, <<"{}", TokensFrom(1)>> >>

UsageText ==
    [c \in Commands \ {"Help"} |->
        CASE c = "GetBalance" -> << <<"Gets your balance">> >>
          [] c = "SendTari" ->
                << <<"Sends an amount of Tari to a address call this command via:">>,
                   <<"send_tari [amount of tari to send] [public key to send to]">> >>
          [] c = "GetChainMetadata" -> << <<"Gets your base node chain meta data">> >>
          [] c = "ListPeers" -> << <<"Lists the peers that this node knows about">> >>
          [] c = "ListConnections" ->
                << <<"Lists the peer connections currently held by this node">> >>
          [] c = "ListHeaders" ->
                << <<"List the last headers up to a maximum of 10 of the current chain">> >>
          [] c = "ToggleMining" ->
                << <<"Enable or disable the miner on this node, calling this command will toggle the state">> >>
          [] c = "Whoami" ->
                << <<"Display identity information about this node, including: public key, node ID and the public address">> >>
          [] c \in {"Quit", "Exit"} -> << <<"Exits the base node">> >>]

\* the help a line asks for, by its topic token
HelpOf(l) ==
    LET toks == TokensOf(l) IN
    IF Len(toks) >= 2 /\ IsCommandToken(toks[2]) /\ toks[2] # CanonicalToken["Help"]
    THEN UsageText[CHOOSE c \in Commands : CanonicalToken[c] = toks[2]]
    ELSE GenericHelp

C11_Help ==
    [][(Called /\ FirstToken(line') = CanonicalToken["Help"]) =>
          /\ invoked' = "Help"
          /\ printed' = HelpOf(line')
          /\ logged' = <<>>
          /\ spawned' = <<>>
          /\ tasks' = tasks
          /\ enable_miner' = enable_miner
          /\ shutdown_flag' = shutdown_flag
          /\ pc' = "Idle"]_vars

C11_Witness ==
    /\ nlines = 2
    /\ line = <<"h","e","l","p"," ","s","e","n","d","-","t","a","r","i">>
    /\ invoked = "Help"
    /\ printed =
          << <<"Sends an amount of Tari to a address call this command via:">>,
             <<"send_tari [amount of tari to send] [public key to send to]">> >>
    /\ Len(tasks) = 1
    /\ tasks[1].pc = "get_balance"

(***************************************************************************)
(* C12: handle_command never waits for a detached unit.  For every backend *)
(* command the call returns with the dispatcher Idle as soon as the unit   *)
(* is submitted: the unit is then still awaiting its first backend answer, *)
(* no unit already in flight has advanced, and in every Idle state the     *)
(* next line can be handled whatever the units in flight are waiting for.  *)
(***************************************************************************)
BackendTokens ==
    { CanonicalToken[c] : c \in {"GetBalance", "GetChainMetadata", "ListPeers",
                                  "ListConnections", "ListHeaders"} }

InFlight(t) == t.pc # "done"

C12_NoWait ==
    /\ [][Called =>
            /\ tasks' = tasks \o spawned'
            /\ \A k \in 1..Len(spawned') :
                  /\ InFlight(spawned'[k])
                  /\ spawned'[k].out = <<>>
                  /\ spawned'[k].log = <<>>
            /\ FirstToken(line') \in BackendTokens =>
                  /\ Len(spawned') = 1
                  /\ pc' = "Idle"
            /\ FirstToken(line') = CanonicalToken["SendTari"] =>
                  /\ Len(spawned') <= 1
                  /\ pc' = "Idle"]_vars
    /\ [](pc = "Idle" /\ nlines < MaxLines => ENABLED ReadLine)

C12_Witness ==
    /\ pc = "Idle"
    /\ nlines = 2
    /\ Len(tasks) = 2
    /\ InFlight(tasks[1])
    /\ InFlight(tasks[2])
    /\ tasks[2].kind = "SendTari"

(***************************************************************************)
(* C13: the completions of successively dispatched commands are not        *)
(* ordered.  Whatever else is in flight, every unit in flight can be the   *)
(* next one to resume and print, so of two units either may report first,  *)
(* and a unit that has printed part of its output can be overtaken by the  *)
(* output of another; a unit's step changes that unit only.                *)
(***************************************************************************)
Advances(i) == NextUnits /\ Len(tasks') = Len(tasks) /\ tasks'[i] # tasks[i]

C13_NoOrder ==
    /\ [](\A i \in 1..Len(tasks) : InFlight(tasks[i]) => ENABLED Advances(i))
    /\ [][~Called =>
            \E i \in 1..Len(tasks) :
                /\ tasks'[i] # tasks[i]
                /\ Len(tasks') = Len(tasks)
                /\ \A k \in 1..Len(tasks) : k # i => tasks'[k] = tasks[k]]_vars

\* the unit dispatched second has reported while the one dispatched first,
\* which has printed its first line, has not yet printed its last
C13_Witness ==
    /\ Len(tasks) = 2
    /\ tasks[1].kind = "ListHeaders"
    /\ tasks[1].pc = "get_header"
    /\ Len(tasks[1].out) = 1
    /\ tasks[2].kind = "ListPeers"
    /\ tasks[2].pc = "done"
    /\ Len(tasks[2].out) = 2

(***************************************************************************)
(* C14: there is no cancellation.  A submitted unit is never dropped, it   *)
(* can advance whether or not the shutdown flag is set, and on a runtime   *)
(* that schedules fairly with backends that answer it eventually           *)
(* completes, also when quit or exit set the flag while it was in flight.  *)
(***************************************************************************)
AdvancesLive(i) == NextLive /\ Len(tasks') = Len(tasks) /\ tasks'[i] # tasks[i]

C14_NoCancellation ==
    /\ [][/\ Len(tasks') >= Len(tasks)
          /\ \A i \in 1..Len(tasks) :
                /\ tasks'[i].kind = tasks[i].kind
                /\ ~InFlight(tasks[i]) => tasks'[i] = tasks[i]]_vars
    /\ [](\A i \in 1..Len(tasks) : InFlight(tasks[i]) => ENABLED AdvancesLive(i))
    /\ \A i \in 1..MaxLines :
          (Len(tasks) >= i) ~> (Len(tasks) >= i /\ ~InFlight(tasks[i]))

\* quit or exit came first, the balance unit was spawned and has completed
C14_Witness ==
    /\ nlines = 2
    /\ line = CanonicalToken["GetBalance"]
    /\ shutdown_flag
    /\ Len(tasks) = 1
    /\ tasks[1].pc = "done"

(***************************************************************************)
(* C15, as documented: every backend failure in a detached unit is logged  *)
(* at warn or error level and is also surfaced to the operator with a      *)
(* printed line.                                                           *)
(***************************************************************************)
Failed(t) == \E k \in 1..Len(t.answered) : ~t.answered[k]

Failures(t) == Cardinality({k \in 1..Len(t.answered) : ~t.answered[k]})

Levels(t, levels) == Cardinality({k \in 1..Len(t.log) : t.log[k][1] \in levels})

C15_AllFailuresSurfaced ==
    \A i \in 1..Len(tasks) :
        Failed(tasks[i]) =>
            /\ Levels(tasks[i], {"warn", "error"}) >= 1
            /\ Len(tasks[i].out) >= 1

(***************************************************************************)
(* C15, as the code has it: every backend failure in a detached unit is    *)
(* logged, at warn level by the balance, metadata, header and send units   *)
(* and at error level by the peer and connection units.  The balance,      *)
(* metadata, header and send units also print a failure line; the peer and *)
(* connection units print nothing on failure.  The session continues: the  *)
(* dispatcher stays Idle and takes the next line.                          *)
(***************************************************************************)
FailureLines(t) ==
    CASE t.kind = "GetBalance" -> << <<"Something went wrong">> >>
      [] t.kind = "GetChainMetadata" ->
            << <<"Failed to retrieve chain metadata: {:?}", "err">> >>
      [] t.kind = "SendTari" ->
            << <<"Something went wrong sending funds">>, <<"{:?}", "err">> >>
      [] t.kind \in {"ListPeers", "ListConnections"} -> <<>>
      [] t.kind = "ListHeaders" ->
            (IF ~t.answered[1]
             THEN << <<"Failed to retrieve chain height: {:?}", "err">> >> ELSE <<>>)
            \o (IF Len(t.answered) = 2 /\ ~t.answered[2]
                THEN << <<"Failed to retrieve headers: {:?}", "err">> >> ELSE <<>>)

C15_Failures ==
    /\ \A i \in 1..Len(tasks) :
          LET t == tasks[i] IN
          /\ Len(t.log) = Failures(t)
          /\ Levels(t, IF t.kind \in {"ListPeers", "ListConnections"}
                       THEN {"error"} ELSE {"warn"}) = Failures(t)
          /\ Failed(t) =>
                /\ t.kind # "ListHeaders" => t.out = FailureLines(t)
                /\ t.kind = "ListHeaders" =>
                      /\ Len(t.out) >= Len(FailureLines(t))
                      /\ SubSeq(t.out, 1, Len(FailureLines(t))) = FailureLines(t)
                      /\ ~t.answered[1] /\ Len(t.answered) = 2 /\ t.answered[2] =>
                            Len(t.out) = 2
    /\ pc = "Idle" /\ nlines < MaxLines => ENABLED ReadLine

C15_Witness ==
    /\ nlines = 2
    /\ pc = "Idle"
    /\ Len(tasks) = 2
    /\ tasks[1].kind = "ListPeers"
    /\ tasks[1].answered = <<FALSE>>
    /\ tasks[1].out = <<>>
    /\ tasks[1].log = << <<"error", "Could not read peers: {}">> >>
    /\ tasks[2].kind = "GetBalance"
    /\ tasks[2].answered = <<FALSE>>
    /\ tasks[2].out = << <<"Something went wrong">> >>

(***************************************************************************)
(* C16: no line and no sequence of lines makes the dispatcher abort.  No   *)
(* call of handle_command panics in an unwrap or in the argument indexing; *)
(* every call returns to Idle, toggle-mining after its store; this holds   *)
(* also once the shutdown flag is set, and the dispatcher then still takes *)
(* the next line: storing true into the flag is all the core does to end   *)
(* the session.                                                            *)
(***************************************************************************)
C16_NoAbort ==
    /\ \A l \in AllLines : ~Handled[l].panic
    /\ [](pc \in {"Idle", "toggle_store"})
    /\ [][Called =>
            \/ pc' = "Idle"
            \/ /\ pc' = "toggle_store"
               /\ FirstToken(line') = CanonicalToken["ToggleMining"]]_vars
    /\ [][pc = "toggle_store" /\ pc' # pc => pc' = "Idle"]_vars
    /\ [](pc = "toggle_store" => ENABLED ToggleStore)
    /\ [](pc = "Idle" /\ nlines < MaxLines => ENABLED ReadSessionLine)

\* the flag is set and a send-tari line with too few arguments was handled
C16_Witness ==
    /\ shutdown_flag
    /\ nlines = 2
    /\ pc = "Idle"
    /\ line = <<"s","e","n","d","-","t","a","r","i"," ","1","0","0">>
    /\ invoked = "SendTari"
    /\ Len(printed) = 2

(***************************************************************************)
(* C17, as documented: in the list-headers unit the header query is issued *)
(* only after the metadata query has answered.  If the metadata query      *)
(* fails or reports no height the unit logs, takes the height to be 0 and  *)
(* still issues the header query, for height 0 when the count is at least  *)
(* 1.  If the header query fails the unit prints a failure line, logs, and *)
(* prints no header output.                                                *)
(***************************************************************************)
ListsHeaders(t) == t.kind = "ListHeaders"

MetadataFailed(t) == Len(t.answered) >= 1 /\ ~t.answered[1]

NoHeight(t) ==
    /\ Len(t.answered) >= 1
    /\ t.answered[1]
    /\ ~t.metadata.val.height_of_longest_chain.ok

HeaderFailed(t) == Len(t.answered) = 2 /\ ~t.answered[2]

HeaderOutput(t) == {k \in 1..Len(t.out) : t.out[k][1] = "{}"}

\* the two calls in sequence, the height 0 fallback, the header failure
HeadersPolicy(t) ==
    /\ t.pc = "get_metadata" => t.answered = <<>> /\ t.heights = <<>> /\ t.out = <<>>
    /\ t.pc = "get_header" => Len(t.answered) = 1
    /\ t.pc = "done" => Len(t.answered) = 2
    /\ Len(t.answered) >= 1 => t.metadata.ok = t.answered[1]
    /\ MetadataFailed(t) \/ NoHeight(t) =>
          /\ t.max_height = 0
          /\ t.heights = IF t.max_headers >= 1 THEN <<0>> ELSE <<>>
          /\ t.pc \in {"get_header", "done"}
    /\ MetadataFailed(t) =>
          /\ t.log[1][1] = "warn"
          /\ t.out[1] = <<"Failed to retrieve chain height: {:?}", "err">>
    /\ HeaderFailed(t) =>
          /\ t.out[Len(t.out)] = <<"Failed to retrieve headers: {:?}", "err">>
          /\ t.log[Len(t.log)][1] = "warn"
          /\ HeaderOutput(t) = {}
    /\ Len(t.answered) = 2 /\ t.answered[2] =>
          /\ HeaderOutput(t) = {Len(t.out)}
          /\ Len(t.out) = IF MetadataFailed(t) THEN 2 ELSE 1

C17_HeadersPolicyLogged ==
    \A i \in 1..Len(tasks) :
        ListsHeaders(tasks[i]) =>
            /\ HeadersPolicy(tasks[i])
            /\ MetadataFailed(tasks[i]) \/ NoHeight(tasks[i]) => Len(tasks[i].log) >= 1

(***************************************************************************)
(* C17, as the code has it: the same, except that only a failed metadata   *)
(* query is logged (and printed); metadata that reports no height is taken *)
(* as height 0 without any log entry.  The unit's log holds one warn entry *)
(* per failed query and nothing else.                                      *)
(***************************************************************************)
C17_HeadersPolicy ==
    \A i \in 1..Len(tasks) :
        ListsHeaders(tasks[i]) =>
            /\ HeadersPolicy(tasks[i])
            /\ Len(tasks[i].log) = Failures(tasks[i])
            /\ Levels(tasks[i], {"warn"}) = Failures(tasks[i])

\* both queries failed: height 0 was still asked for
C17_Witness ==
    /\ Len(tasks) = 1
    /\ ListsHeaders(tasks[1])
    /\ tasks[1].answered = <<FALSE, FALSE>>
    /\ tasks[1].max_headers = 3
    /\ tasks[1].heights = <<0>>
    /\ tasks[1].out = << <<"Failed to retrieve chain height: {:?}", "err">>,
                         <<"Failed to retrieve headers: {:?}", "err">> >>
    /\ Len(tasks[1].log) = 2

(***************************************************************************)
(* C18: the toggle-mining flip is atomic with respect to every other       *)
(* holder of the mining flag: whatever a concurrent writer stores and      *)
(* whenever, the value the toggle stores is the negation of the value the  *)
(* flag held immediately before the toggle's store.                        *)
(***************************************************************************)
C18_AtomicToggle ==
    [][(pc = "toggle_store" /\ pc' = "Idle") => enable_miner' = ~enable_miner]_vars

(***************************************************************************)
(* C19: the shutdown flag is monotonic within the core.  Once it is true   *)
(* no command, no unrecognized line and no step of a detached unit sets it *)
(* back to false, and no call stores false into it.                        *)
(***************************************************************************)
C19_Monotonic ==
    /\ \A l \in AllLines :
          \A k \in 1..Len(Handled[l].shutdown_store) : Handled[l].shutdown_store[k]
    /\ [][shutdown_flag => shutdown_flag']_vars

\* the flag is set and a toggle-mining call has since run to its end
C19_Witness ==
    /\ shutdown_flag
    /\ nlines = 2
    /\ invoked = "ToggleMining"
    /\ toggles = 1
    /\ pc = "Idle"
    /\ Len(tasks) = 0

(***************************************************************************)
(* C20: flag writes are confined to two synchronous handlers.  The mining  *)
(* flag changes only in the store of a toggle-mining call, which leaves    *)
(* the shutdown flag unchanged; the shutdown flag changes only in a quit   *)
(* or exit call, which leaves the mining flag unchanged; every other call, *)
(* every completion and every step of a detached unit leaves both flags    *)
(* unchanged.                                                              *)
(***************************************************************************)
ShutdownTokens == {CanonicalToken["Quit"], CanonicalToken["Exit"]}

C20_Frame ==
    [][/\ enable_miner' # enable_miner =>
             /\ pc = "toggle_store"
             /\ pc' = "Idle"
             /\ FirstToken(line) = CanonicalToken["ToggleMining"]
             /\ shutdown_flag' = shutdown_flag
       /\ shutdown_flag' # shutdown_flag =>
             /\ Called
             /\ FirstToken(line') \in ShutdownTokens
             /\ enable_miner' = enable_miner
       /\ (Called /\ FirstToken(line') \notin ShutdownTokens) =>
             /\ shutdown_flag' = shutdown_flag
             /\ enable_miner' = enable_miner
       /\ (~Called /\ pc = "Idle") =>
             /\ shutdown_flag' = shutdown_flag
             /\ enable_miner' = enable_miner]_vars

\* the mining flag was flipped by a toggle-mining call and a completion ran
C20_Witness ==
    /\ enable_miner # init_miner
    /\ toggles = 1
    /\ line = CanonicalToken["ToggleMining"]
    /\ pc = "Idle"
    /\ Len(completions) = 3

====
